---------------------------- MODULE Spec2Model ----------------------------
(* Model of the metric aggregation engine of ramp-kit-anime-faces:         *)
(* class Master of external_imports/score_types/generative.py, the object  *)
(* behind the five score types FID, KIDMean, KIDStd, ISMean and ISStd.     *)
(*                                                                         *)
(* One action, Eval, models one whole call of Master.eval.  A call either  *)
(* returns a float or raises; what it did is recorded in `last`.  The      *)
(* Master object is a module-level singleton, so it outlives a call that   *)
(* raised and can be called again.                                         *)
(*                                                                         *)
(* The torchmetrics accumulators are modelled by what they were fed (the   *)
(* sequences of generated and real batches); their compute() is a total    *)
(* integer digest of that data.                                            *)
EXTENDS Integers, Sequences, FiniteSets, TLC

(***************************************************************************)
(* Bounds of the model                                                     *)
(***************************************************************************)
\* largest n_fold a Master is constructed with in Spec and SpecSched
MaxNFold == 1
\* total number of counted Master.eval calls in a behaviour of Spec
MaxCalls == 5
\* largest number of generated batches the global accumulators hold in Spec
MaxAcc == 2
\* number of complete round-robin rounds in SpecRR
MaxRounds == 11
\* number of calls made past the end of self.pattern in SpecSched
MaxOver == 2
\* total number of Master.eval calls in a behaviour of SpecOK
MaxCallsOK == 7

(***************************************************************************)
(* Program constants                                                       *)
(***************************************************************************)
\* range(3) in the comprehension that builds self.pattern
GroupLen == 3
\* 50 * [n_fold], the tail of self.pattern
TailLen == 50
\* self.batch_size
batch_size == 32
\* the factor of kid_mean.item()*1000 and its three siblings
Rescale == 1000
\* Master.__init__(self, n_fold=3), the value MASTER = Master() is built with
DefaultNFold == 3
\* assert len(folders) == 3
NGroups == 3

\* Python's None, as a fold value
None == -1
\* the fold of a call that raised before it resolved one
NoFold == -2

Metrics == {"FID", "KID_mean", "KID_std", "IS_mean", "IS_std"}
\* the order in which a round of SpecRR calls the five score types
MetricOrder == <<"FID", "KID_mean", "KID_std", "IS_mean", "IS_std">>

(***************************************************************************)
(* Inputs of a call                                                        *)
(***************************************************************************)
\* a real path: the name of its parent directory and the weight of its image
P(parent, img) == [parent |-> parent, img |-> img]

YEmpty == <<>>
YGood == <<P("train_1", 1), P("train_2", 2), P("train_3", 4)>>
YMore == <<P("train_1", 1), P("train_2", 2), P("train_2", 8), P("train_3", 4)>>
YTwoGroups == <<P("train_1", 1), P("train_2", 2)>>

\* the y_true tuples a call is given
YTrues == {YEmpty, YGood, YTwoGroups}
\* the y_pred streams a call is given: sequences of generated batches
YPreds == {<<>>, <<1>>, <<2>>}
\* the metric names a call is given, one of them not a metric
MetricArgs == Metrics \cup {"accuracy"}

VARIABLES n_fold, pattern, memory_call, memory, score,
          fid, kid, is_, displayed,
          last, computed, drains, finals

vars == <<n_fold, pattern, memory_call, memory, score,
          fid, kid, is_, displayed, last, computed, drains, finals>>

(***************************************************************************)
(* Master.__init__                                                         *)
(***************************************************************************)
RECURSIVE Repeat(_, _)
Repeat(x, k) == IF k = 0 THEN <<>> ELSE <<x>> \o Repeat(x, k - 1)

RECURSIVE TriplesOnce(_)
\* Triples with the inner loop forgotten: [i for i in range(n)]
TriplesOnce(n) == IF n = 0 THEN <<>> ELSE TriplesOnce(n - 1) \o <<n - 1>>

RECURSIVE Triples(_)
\* [i for i in range(n) for z in range(3)]
Triples(n) == IF n = 0 THEN <<>>
              ELSE Triples(n - 1) \o Repeat(n - 1, GroupLen)

\* Pattern with the leading None forgotten
PatternNoPad(n) == Triples(n) \o Repeat(n, TailLen + 1)

\* self.pattern; Python's pattern[k] is Pattern(n)[k + 1]
Pattern(n) == <<None>> \o Triples(n) \o Repeat(n, TailLen)

\* FrechetInceptionDistance / KernelInceptionDistance with nothing fed
NewAcc == [fake |-> <<>>, real |-> <<>>]
\* InceptionScore with nothing fed
NewIs == [fake |-> <<>>]

FoldVals(n) == {None} \cup (0 .. n)

InitMaster(n) ==
    /\ n_fold = n
    /\ pattern = Pattern(n)
    /\ memory_call = [m \in Metrics |-> 0]
    /\ memory = [c \in Metrics \X FoldVals(n) |-> 0]
    /\ score = <<>>
    /\ fid = NewAcc
    /\ kid = NewAcc
    /\ is_ = NewIs
    /\ displayed = None
    /\ last = [metric |-> "", y_true |-> <<>>, y_pred |-> <<>>,
               fold |-> NoFold, outcome |-> "init",
               exc |-> "", value |-> 0, consumed |-> 0]
    /\ computed = [f \in FoldVals(n) |-> 0]
    /\ drains = [f \in FoldVals(n) |-> 0]
    /\ finals = 0

(***************************************************************************)
(* The accumulators                                                        *)
(***************************************************************************)
\* torch.Tensor(batch).to(device)
Tensor(batch) == [data |-> batch]

\* fid.update(batch_, real=...), kid.update(batch_, real=...)
Update(acc, batch_, real) ==
    IF real THEN [acc EXCEPT !.real = Append(@, batch_)]
    ELSE [acc EXCEPT !.fake = Append(@, batch_)]

\* is_.update(batch_)
UpdateIs(acc, batch_) == [acc EXCEPT !.fake = Append(@, batch_)]

RECURSIVE FeedFake(_, _)
\* the loop over y_pred, for one FID or KID accumulator
FeedFake(acc, y_pred) ==
    IF y_pred = <<>> THEN acc
    ELSE FeedFake(Update(acc, Tensor(Head(y_pred)), FALSE), Tail(y_pred))

RECURSIVE FeedIs(_, _)
\* the loop over y_pred, for one Inception Score accumulator
FeedIs(acc, y_pred) ==
    IF y_pred = <<>> THEN acc
    ELSE FeedIs(UpdateIs(acc, Tensor(Head(y_pred))), Tail(y_pred))

RECURSIVE FeedReal(_, _)
\* the loop over the DataLoader, for one FID or KID accumulator
FeedReal(acc, loader) ==
    IF loader = <<>> THEN acc
    ELSE FeedReal(Update(acc, Head(loader), TRUE), Tail(loader))

\* ImageSet(paths, transform, preload=True): the decoded images, in order
ImageSet(paths) == [k \in 1 .. Len(paths) |-> [pixels |-> paths[k].img]]

RECURSIVE DataLoader(_)
\* DataLoader(dataset, batch_size, shuffle=False): consecutive minibatches
DataLoader(dataset) ==
    IF dataset = <<>> THEN <<>>
    ELSE IF Len(dataset) <= batch_size THEN <<dataset>>
    ELSE <<SubSeq(dataset, 1, batch_size)>>
         \o DataLoader(SubSeq(dataset, batch_size + 1, Len(dataset)))

RECURSIVE SumFake(_)
SumFake(batches) ==
    IF batches = <<>> THEN 0
    ELSE Head(batches).data + 3 * SumFake(Tail(batches))

RECURSIVE SumImages(_)
SumImages(batch) ==
    IF batch = <<>> THEN 0 ELSE Head(batch).pixels + SumImages(Tail(batch))

RECURSIVE SumReal(_)
SumReal(batches) ==
    IF batches = <<>> THEN 0
    ELSE SumImages(Head(batches)) + SumReal(Tail(batches))

\* fid.compute().item(): the raw output of the library
FidCompute(acc) == 1 + 100 * SumFake(acc.fake) + SumReal(acc.real)
\* kid.compute(): the raw (mean, std) of the library
KidCompute(acc) == <<2 + 100 * SumFake(acc.fake) + SumReal(acc.real),
                     3 + 100 * SumFake(acc.fake) + SumReal(acc.real)>>
\* is_.compute(): the raw (mean, std) of the library
IsCompute(acc) == <<4 + 100 * SumFake(acc.fake), 5 + 100 * SumFake(acc.fake)>>

(***************************************************************************)
(* The score cache, a dict                                                 *)
(***************************************************************************)
\* self.score[key] = value
Put(d, key, value) ==
    [k \in DOMAIN d \cup {key} |-> IF k = key THEN value ELSE d[k]]

\* StoreScores with the last assignment forgotten
StoreScoresNoIsStd(d, current_fold, f, k, i) ==
    LET d1 == Put(d, <<"FID", current_fold>>, FidCompute(f))
        d2 == Put(d1, <<"KID_mean", current_fold>>, KidCompute(k)[1] * Rescale)
        d3 == Put(d2, <<"KID_std", current_fold>>, KidCompute(k)[2] * Rescale)
    IN  Put(d3, <<"IS_mean", current_fold>>, IsCompute(i)[1] * Rescale)

\* the five assignments to self.score of one fold, from the fold's own
\* accumulators
StoreScores(d, current_fold, f, k, i) ==
    LET d1 == Put(d, <<"FID", current_fold>>, FidCompute(f))
        d2 == Put(d1, <<"KID_mean", current_fold>>, KidCompute(k)[1] * Rescale)
        d3 == Put(d2, <<"KID_std", current_fold>>, KidCompute(k)[2] * Rescale)
        d4 == Put(d3, <<"IS_mean", current_fold>>, IsCompute(i)[1] * Rescale)
    IN  Put(d4, <<"IS_std", current_fold>>, IsCompute(i)[2] * Rescale)

\* StorePermanent with the last assignment forgotten
StorePermanentNoIsStd(d, current_fold, f, k, i) ==
    LET d1 == Put(d, <<"FID", current_fold>>, FidCompute(f))
        d2 == Put(d1, <<"KID_mean", current_fold>>, KidCompute(k)[1] * Rescale)
        d3 == Put(d2, <<"KID_std", current_fold>>, KidCompute(k)[2] * Rescale)
    IN  Put(d3, <<"IS_mean", current_fold>>, IsCompute(i)[1] * Rescale)

\* StorePermanent with the rescaling of the Inception Score forgotten
StorePermanentRawIs(d, current_fold, f, k, i) ==
    LET d1 == Put(d, <<"FID", current_fold>>, FidCompute(f))
        d2 == Put(d1, <<"KID_mean", current_fold>>, KidCompute(k)[1] * Rescale)
        d3 == Put(d2, <<"KID_std", current_fold>>, KidCompute(k)[2] * Rescale)
        d4 == Put(d3, <<"IS_mean", current_fold>>, IsCompute(i)[1])
    IN  Put(d4, <<"IS_std", current_fold>>, IsCompute(i)[2])

\* the five assignments to self.score of the terminal fold, from the
\* permanent accumulators
StorePermanent(d, current_fold, f, k, i) ==
    LET fid_score == FidCompute(f)
        d1 == Put(d, <<"FID", current_fold>>, fid_score)
        kid_mean == KidCompute(k)[1]
        kid_std == KidCompute(k)[2]
        d2 == Put(d1, <<"KID_mean", current_fold>>, kid_mean * 1000)
        d3 == Put(d2, <<"KID_std", current_fold>>, kid_std * 1000)
        is_mean == IsCompute(i)[1]
        is_std == IsCompute(i)[2]
        d4 == Put(d3, <<"IS_mean", current_fold>>, is_mean * 1000)
    IN  Put(d4, <<"IS_std", current_fold>>, is_std * 1000)

\* set(path_.parent.name for path_ in y_true)
Folders(y_true) == {y_true[k].parent : k \in 1 .. Len(y_true)}

\* TrainName with the + 1 forgotten
TrainNameSame(current_fold) == "train_" \o ToString(current_fold)

\* f"train_{current_fold+1}"
TrainName(current_fold) == "train_" \o ToString(current_fold + 1)

RECURSIVE SelectPaths(_, _)
\* tuple(path for path in y_true if path.parent.name == name)
SelectPaths(y_true, name) ==
    IF y_true = <<>> THEN <<>>
    ELSE IF Head(y_true).parent = name
         THEN <<Head(y_true)>> \o SelectPaths(Tail(y_true), name)
         ELSE SelectPaths(Tail(y_true), name)

(***************************************************************************)
(* Master.eval                                                             *)
(***************************************************************************)
\* the outcome of a call that returned value, having read consumed batches
Returned(value, consumed) ==
    [outcome |-> "return", exc |-> "", value |-> value, consumed |-> consumed]

\* the outcome of a call that raised exc, having read consumed batches
Raised(exc, consumed) ==
    [outcome |-> "raise", exc |-> exc, value |-> 0, consumed |-> consumed]

\* return self.score[context]
Lookup(d, context, consumed) ==
    IF context \in DOMAIN d THEN Returned(d[context], consumed)
    ELSE Raised("KeyError", consumed)

\* ValidMetric with the assertion forgotten
ValidMetricAny(metric) == TRUE

\* assert metric in ("FID", "KID_mean", "KID_std", "IS_mean", "IS_std")
ValidMetric(metric) == metric \in Metrics

\* counter[key] of a collections.Counter: 0 for a key it does not hold
Count(counter, key) == IF key \in DOMAIN counter THEN counter[key] ELSE 0

\* Incr that counts the call for every key the counter holds
IncrAll(counter, key) ==
    [k \in DOMAIN counter \cup {key} |-> Count(counter, k) + 1]

\* Incr with the increment forgotten
IncrNone(counter, key) ==
    [k \in DOMAIN counter \cup {key} |-> Count(counter, k)]

\* counter[key] += 1 of a collections.Counter
Incr(counter, key) ==
    IF key \in DOMAIN counter THEN [counter EXCEPT ![key] = @ + 1]
    ELSE [k \in DOMAIN counter \cup {key} |->
             IF k = key THEN 1 ELSE counter[k]]

\* Cached with the test forgotten: every call computes
CachedNever(d, context) == FALSE

\* if context in self.score
Cached(d, context) == context \in DOMAIN d

\* what a call did: its arguments, the fold it resolved and its outcome
Done(y_true, y_pred, metric, fold, out) ==
    [metric |-> metric, y_true |-> y_true, y_pred |-> y_pred, fold |-> fold,
     outcome |-> out.outcome, exc |-> out.exc, value |-> out.value,
     consumed |-> out.consumed]

Eval(y_true, y_pred, metric) ==
    IF ~ValidMetric(metric)
    THEN \* assert metric in (...)
         /\ last' = Done(y_true, y_pred, metric, NoFold,
                      Raised("AssertionError", 0))
         /\ UNCHANGED <<n_fold, pattern, memory_call, memory, score, fid,
                        kid, is_, displayed, computed, drains, finals>>
    ELSE
    LET call == Count(Incr(memory_call, metric), metric) IN
    /\ memory_call' = Incr(memory_call, metric)
    /\ UNCHANGED <<n_fold, pattern>>
    /\ IF call >= Len(pattern)
       THEN \* self.pattern[...] is out of range
            /\ last' = Done(y_true, y_pred, metric, NoFold,
                         Raised("IndexError", 0))
            /\ UNCHANGED <<memory, score, fid, kid, is_, displayed,
                           computed, drains, finals>>
       ELSE
       LET current_fold == pattern[call + 1]
           context == <<metric, current_fold>>
       IN
       /\ memory' = Incr(memory, context)
       /\ IF Cached(score, context)
          THEN \* already computed for this fold
               /\ last' = Done(y_true, y_pred, metric, current_fold,
                            Returned(score[context], 0))
               /\ UNCHANGED <<score, fid, kid, is_, displayed,
                              computed, drains, finals>>
          ELSE IF current_fold = n_fold
          THEN \* the permanent metrics are computed
               /\ score' = StorePermanent(score, current_fold, fid, kid, is_)
               /\ last' = Done(y_true, y_pred, metric, current_fold,
                            Lookup(score', context, 0))
               /\ finals' = finals + 1
               /\ UNCHANGED <<fid, kid, is_, displayed, computed, drains>>
          ELSE IF Len(y_true) = 0
          THEN /\ last' = Done(y_true, y_pred, metric, current_fold,
                               Lookup(score, context, 0))
               /\ UNCHANGED <<score, fid, kid, is_, displayed,
                              computed, drains, finals>>
          ELSE
          LET i == Len(y_pred) - 1
              local_fid == FeedFake(NewAcc, y_pred)
              local_kid == FeedFake(NewAcc, y_pred)
              local_is == FeedIs(NewIs, y_pred)
              fid1 == FeedFake(fid, y_pred)
              kid1 == FeedFake(kid, y_pred)
              is1 == FeedIs(is_, y_pred)
          IN
          /\ is_' = is1
          /\ displayed' = IF i >= 0 THEN Tensor(y_pred[1]) ELSE displayed
          /\ drains' = IF i >= 0 THEN [drains EXCEPT ![current_fold] = @ + 1]
                       ELSE drains
          /\ IF i = -1
             THEN /\ last' = Done(y_true, y_pred, metric, current_fold,
                                  Lookup(score, context, 0))
                  /\ fid' = fid1
                  /\ kid' = kid1
                  /\ UNCHANGED <<score, computed, finals>>
             ELSE IF Cardinality(Folders(y_true)) # NGroups
             THEN \* assert len(folders) == 3
                  /\ last' = Done(y_true, y_pred, metric, current_fold,
                                  Raised("AssertionError", Len(y_pred)))
                  /\ fid' = fid1
                  /\ kid' = kid1
                  /\ UNCHANGED <<score, computed, finals>>
             ELSE IF current_fold = None
             THEN \* current_fold+1 on None
                  /\ last' = Done(y_true, y_pred, metric, current_fold,
                                  Raised("TypeError", Len(y_pred)))
                  /\ fid' = fid1
                  /\ kid' = kid1
                  /\ UNCHANGED <<score, computed, finals>>
             ELSE
             LET y_true_ == SelectPaths(y_true, TrainName(current_fold))
                 loader == DataLoader(ImageSet(y_true_))
             IN
             /\ fid' = FeedReal(fid1, loader)
             /\ kid' = FeedReal(kid1, loader)
             /\ score' = StoreScores(score, current_fold,
                                     FeedReal(local_fid, loader),
                                     FeedReal(local_kid, loader), local_is)
             /\ last' = Done(y_true, y_pred, metric, current_fold,
                          Lookup(score', context, Len(y_pred)))
             /\ computed' = [computed EXCEPT ![current_fold] = @ + 1]
             /\ UNCHANGED finals

(***************************************************************************)
(* Specifications                                                          *)
(***************************************************************************)
RECURSIVE SumCalls(_)
SumCalls(S) == IF S = {} THEN 0
               ELSE LET m == CHOOSE x \in S : TRUE
                    IN memory_call[m] + SumCalls(S \ {m})

TotalCalls == SumCalls(Metrics)

Init == \E n \in 0 .. MaxNFold : InitMaster(n)

\* any score type is called next, with any input
Call ==
    /\ TotalCalls < MaxCalls
    /\ \E metric \in MetricArgs, y_true \in YTrues, y_pred \in YPreds :
          /\ Eval(y_true, y_pred, metric)
          /\ Len(fid'.fake) <= MaxAcc

Next == Call

Spec == Init /\ [][Next]_vars

\* one score type is called again and again, the other four never
CallAlone ==
    \E metric \in Metrics, y_true \in {YEmpty, YGood}, y_pred \in {<<1>>} :
       /\ \A other \in Metrics \ {metric} : memory_call[other] = 0
       /\ memory_call[metric] < Len(pattern) - 1 + MaxOver
       /\ Eval(y_true, y_pred, metric)

NextSched == CallAlone

SpecSched == Init /\ [][NextSched]_vars

\* any score type is called next, each call with real paths of the three
\* groups and a stream that yields a batch, so that no call raises
CallOK ==
    /\ TotalCalls < MaxCallsOK
    /\ \E metric \in Metrics, y_true \in {YGood}, y_pred \in {<<1>>, <<2>>} :
          Eval(y_true, y_pred, metric)

NextOK == CallOK

SpecOK == Init /\ [][NextOK]_vars

\* the module-level MASTER = Master()
InitRR == InitMaster(DefaultNFold)

\* the five score types are called in turn, round after round, each call
\* with real paths of the three groups and a stream that yields batches
CallRR ==
    /\ TotalCalls < Len(MetricOrder) * MaxRounds
    /\ \E y_true \in {YGood, YMore}, y_pred \in {<<1>>, <<2, 1>>} :
          Eval(y_true, y_pred, MetricOrder[(TotalCalls % Len(MetricOrder)) + 1])

NextRR == CallRR

SpecRR == InitRR /\ [][NextRR]_vars

(***************************************************************************)
(* Vocabulary of the claims                                                *)
(***************************************************************************)
\* the last step was a call with a metric name of the fixed set
Called == last.outcome # "init" /\ last.metric \in Metrics
\* the call index of the last call: its metric's counter after the increment
CallIndex == memory_call[last.metric]
\* the last call index of the last real-fold triple
LastReal == GroupLen * n_fold
\* the five cache keys of fold f
Keys(f) == {<<m, f>> : m \in Metrics}
\* the step is a call that resolved fold f
Resolves(f) == last'.metric \in Metrics /\ last'.fold = f
\* the step fed nothing to a global accumulator and read nothing of y_pred
NoDrain == last'.consumed = 0 /\ UNCHANGED <<fid, kid, is_, drains, computed>>

C2_OncePerFold ==
    [][\A f \in 0 .. n_fold - 1 :
          /\ computed'[f] <= 1
          /\ computed[f] >= 1 /\ Resolves(f) => NoDrain]_vars

\* a metric's first call on fold 0 is given a stream with batches after
\* another metric has computed fold 0, and reads nothing of it
C2_Witness ==
    /\ Called
    /\ last.fold = 0 /\ n_fold > 0
    /\ computed[0] = 1
    /\ memory[<<last.metric, 0>>] = 1
    /\ \E other \in Metrics \ {last.metric} : memory[<<other, 0>>] >= 1
    /\ last.y_true # <<>> /\ last.y_pred # <<>>
    /\ last.consumed = 0 /\ last.outcome = "return"

(***************************************************************************)
(* C3                                                                      *)
(***************************************************************************)
\* C3: a call whose (metric, fold) is already in the score cache returns
\* exactly the cached value, reads no batch of the generated stream, leaves
\* the global accumulators as they are and does not write the cache.
C3_CacheHit ==
    [][\A f \in 0 .. n_fold :
          Resolves(f) /\ <<last'.metric, f>> \in DOMAIN score =>
              /\ last'.outcome = "return"
              /\ last'.value = score[<<last'.metric, f>>]
              /\ NoDrain
              /\ UNCHANGED <<score, finals>>]_vars

\* the third call of a metric on one fold, given real paths and a stream
C3_Witness ==
    /\ Called
    /\ last.fold \in 0 .. n_fold
    /\ memory[<<last.metric, last.fold>>] >= 3
    /\ last.y_true # <<>> /\ last.y_pred # <<>>
    /\ last.outcome = "return"
    /\ last.value = score[<<last.metric, last.fold>>]

(***************************************************************************)
(* C4                                                                      *)
(***************************************************************************)
\* C4: a call with empty real paths on a non-terminal fold whose
\* (metric, fold) is not in the cache returns the value cached for
\* (metric, fold) and does not raise.
C4_EmptyRealReturns ==
    [][\A f \in 0 .. n_fold - 1 :
          /\ Resolves(f)
          /\ <<last'.metric, f>> \notin DOMAIN score
          /\ last'.y_true = <<>>
          => /\ last'.outcome = "return"
             /\ <<last'.metric, f>> \in DOMAIN score'
             /\ last'.value = score'[<<last'.metric, f>>]]_vars

(***************************************************************************)
(* C5                                                                      *)
(***************************************************************************)
\* C5: a call that reaches the genuine computation on a non-terminal fold
\* with a stream of zero batches returns the value cached for
\* (metric, fold) and leaves the global accumulators and the cache as they
\* are.
C5_EmptyStreamReturns ==
    [][\A f \in 0 .. n_fold - 1 :
          /\ Resolves(f)
          /\ <<last'.metric, f>> \notin DOMAIN score
          /\ last'.y_true # <<>>
          /\ last'.y_pred = <<>>
          => /\ last'.outcome = "return"
             /\ <<last'.metric, f>> \in DOMAIN score'
             /\ last'.value = score'[<<last'.metric, f>>]
             /\ UNCHANGED <<score, fid, kid, is_>>]_vars

(***************************************************************************)
(* C6                                                                      *)
(***************************************************************************)
\* C6: every call with a metric name of the fixed set resolves a fold,
\* however large its call index, and every call past the last real-fold
\* triple resolves to the terminal fold n_fold.
C6_NeverFails ==
    Called =>
        /\ last.fold # NoFold
        /\ CallIndex > LastReal => last.fold = n_fold

(***************************************************************************)
(* C7                                                                      *)
(***************************************************************************)
\* every metric has been called exactly k times
RoundDone(k) == \A m \in Metrics : memory_call[m] = k
\* the folds whose stream was drained into the accumulators, once each
DrainedOnce(F) ==
    \A f \in DOMAIN drains : drains[f] = IF f \in F THEN 1 ELSE 0

\* C7 as stated: with n_fold = 3, after the five metrics were called 6
\* times each in round-robin order with real paths and streams that yield
\* batches, 3 streams were drained (folds 0, 1 and 2) and the global
\* accumulators were finalized once.
C7_AsStated ==
    n_fold = 3 /\ RoundDone(6) => DrainedOnce({0, 1, 2}) /\ finals = 1

\* C7 amended: after 6 calls of each metric exactly 2 streams were drained
\* (folds 0 and 1) and nothing was finalized; the 3 drains (folds 0, 1 and
\* 2) and the 1 terminal finalization are reached after 10 calls of each
\* metric.
C7_EndToEnd ==
    /\ n_fold = 3 /\ RoundDone(6) => DrainedOnce({0, 1}) /\ finals = 0
    /\ n_fold = 3 /\ RoundDone(10) => DrainedOnce({0, 1, 2}) /\ finals = 1

\* the end of the sixth round
C7_Witness ==
    /\ n_fold = 3 /\ RoundDone(6)
    /\ last.metric = MetricOrder[Len(MetricOrder)]
    /\ computed[0] = 1 /\ computed[1] = 1

(***************************************************************************)
(* C8                                                                      *)
(***************************************************************************)
\* C8: a key of the score cache keeps its value for ever: no call removes
\* it or stores another value under it.
C8_WriteOnce ==
    [][\A key \in DOMAIN score :
          key \in DOMAIN score' /\ score'[key] = score[key]]_vars

\* a call on a fold that is in the cache, given a stream other than the one
\* the fold was computed from
C8_Witness ==
    /\ Called
    /\ last.fold \in 0 .. n_fold - 1
    /\ last.y_true # <<>>
    /\ last.y_pred # <<>>
    /\ <<last.metric, last.fold>> \in DOMAIN score
    /\ score[<<"FID", last.fold>>]
          # FidCompute(FeedReal(FeedFake(NewAcc, last.y_pred),
               DataLoader(ImageSet(SelectPaths(last.y_true,
                                               TrainName(last.fold))))))

(***************************************************************************)
(* C9                                                                      *)
(***************************************************************************)
\* C9: the global accumulators are finalized only by a call whose fold is
\* the terminal fold, and when they are, they have received the generated
\* and the real data of every fold 0..n_fold-1, each fold exactly once.
C9_FinalizeAfterAllFolds ==
    [][finals' # finals =>
          /\ last'.fold = n_fold
          /\ \A f \in 0 .. n_fold - 1 : drains[f] = 1 /\ computed[f] = 1]_vars

(***************************************************************************)
(* C10                                                                     *)
(***************************************************************************)
\* C10: a call on the terminal fold that finds none of the five terminal
\* entries in the cache stores all five of them and returns the one of the
\* metric it was called for.
C10_TerminalStoresAll ==
    [][Resolves(n_fold) /\ Keys(n_fold) \cap DOMAIN score = {} =>
          /\ Keys(n_fold) \subseteq DOMAIN score'
          /\ last'.outcome = "return"
          /\ last'.value = score'[<<last'.metric, n_fold>>]]_vars

\* the first terminal call of the whole run has just returned
C10_Witness ==
    /\ Called
    /\ last.fold = n_fold
    /\ finals = 1
    /\ \A m \in Metrics :
          memory[<<m, n_fold>>] = IF m = last.metric THEN 1 ELSE 0
    /\ Keys(n_fold) \subseteq DOMAIN score

(***************************************************************************)
(* C11                                                                     *)
(***************************************************************************)
RECURSIVE Flatten(_)
\* the images of a sequence of batches, in the order they were fed
Flatten(batches) ==
    IF batches = <<>> THEN <<>> ELSE Head(batches) \o Flatten(Tail(batches))

\* the real images the step fed to an accumulator that was acc before it
\* and is acc1 after it
RealFed(acc, acc1) ==
    Flatten(SubSeq(acc1.real, Len(acc.real) + 1, Len(acc1.real)))

\* the name of the partition group of fold f
GroupName(f) == <<"train_1", "train_2", "train_3">>[f + 1]

\* the images of the paths of y_true whose parent directory is name
ImagesOf(y_true, name) == ImageSet(SelectPaths(y_true, name))

\* C11: a genuine computation of fold f feeds the global FID and KID
\* accumulators the images of exactly the real paths whose parent
\* directory is train_(f+1), and of no other path; fold 1 uses only the
\* train_2 paths.
C11_FoldGroupOnly ==
    [][\A f \in 0 .. n_fold - 1 :
          computed'[f] # computed[f] =>
              /\ RealFed(fid, fid') = ImagesOf(last'.y_true, GroupName(f))
              /\ RealFed(kid, kid') = ImagesOf(last'.y_true, GroupName(f))
              /\ \A k \in 1 .. Len(last'.y_true) :
                    last'.y_true[k].parent # GroupName(f) =>
                        \A j \in 1 .. Len(RealFed(fid, fid')) :
                            RealFed(fid, fid')[j].pixels
                                # last'.y_true[k].img]_vars

\* fold 1 has just been computed from paths of train_1, train_2 (two of
\* them) and train_3
C11_Witness ==
    /\ Called
    /\ last.fold = 1
    /\ last.y_true = YMore
    /\ last.consumed > 0
    /\ last.outcome = "return"
    /\ computed[1] = 1
    /\ Len(Flatten(fid.real)) = 3

(***************************************************************************)
(* C12                                                                     *)
(***************************************************************************)
\* C12: a call with a metric name outside the fixed set of five raises an
\* AssertionError and changes nothing: the call counters, the visit
\* counters, the score cache and the global accumulators stay as they were
\* and no batch of the stream is read.
C12_BadMetricFails ==
    [][last'.metric \notin Metrics =>
          /\ last'.outcome = "raise"
          /\ last'.exc = "AssertionError"
          /\ last'.consumed = 0
          /\ UNCHANGED <<memory_call, memory, score, fid, kid, is_,
                         computed, drains, finals>>]_vars

\* a call with the name "accuracy", given real paths and a stream, on a
\* Master that has computed a fold
C12_Witness ==
    /\ last.metric = "accuracy"
    /\ last.outcome = "raise"
    /\ last.y_true # <<>> /\ last.y_pred # <<>>
    /\ TotalCalls > 0
    /\ score # <<>>

(***************************************************************************)
(* C13                                                                     *)
(***************************************************************************)
\* C13: a call that computes a fold (non-terminal fold, nothing cached,
\* real paths and a stream with batches) with real paths that do not span
\* exactly 3 groups raises an AssertionError before it reads a batch of
\* the stream and before it updates a global accumulator, and no entry of
\* the fold is cached.
C13_AssertBeforeDrain ==
    [][\A f \in 0 .. n_fold - 1 :
          /\ Resolves(f)
          /\ <<last'.metric, f>> \notin DOMAIN score
          /\ last'.y_true # <<>>
          /\ last'.y_pred # <<>>
          /\ Cardinality(Folders(last'.y_true)) # NGroups
          => /\ last'.outcome = "raise"
             /\ last'.exc = "AssertionError"
             /\ last'.consumed = 0
             /\ UNCHANGED <<fid, kid, is_>>
             /\ Keys(f) \cap DOMAIN score' = {}]_vars

(***************************************************************************)
(* C14                                                                     *)
(***************************************************************************)
\* C14: for every metric and every real fold f, the calls of the metric
\* that resolve to f are 3 consecutive calls, folds are visited in
\* non-decreasing order, and each of those calls (given real paths that
\* are empty or span the 3 groups) returns the value cached for
\* (metric, f).
C14_TripleSameValue ==
    Called /\ last.fold \in 0 .. n_fold - 1
           /\ Cardinality(Folders(last.y_true)) \in {0, NGroups} =>
        /\ memory[<<last.metric, last.fold>>] <= GroupLen
        /\ \A g \in 0 .. last.fold - 1 : memory[<<last.metric, g>>] = GroupLen
        /\ \A g \in last.fold + 1 .. n_fold : memory[<<last.metric, g>>] = 0
        /\ last.outcome = "return"
        /\ <<last.metric, last.fold>> \in DOMAIN score
        /\ last.value = score[<<last.metric, last.fold>>]

(***************************************************************************)
(* C15                                                                     *)
(***************************************************************************)
\* C15: a call for metric m adds exactly 1 to the call counter of m, which
\* starts at 0, and leaves the counter of every other metric as it was;
\* the fold of the call is the entry of the schedule at m's own counter.
C15_IndependentCounters ==
    [][last'.metric \in Metrics =>
          /\ memory_call[last'.metric] >= 0
          /\ memory_call'[last'.metric] = memory_call[last'.metric] + 1
          /\ \A other \in Metrics \ {last'.metric} :
                memory_call'[other] = memory_call[other]
          /\ DOMAIN memory_call' = Metrics
          /\ last'.fold # NoFold =>
                last'.fold = pattern[memory_call'[last'.metric] + 1]]_vars

\* a metric's fourth call resolves to the terminal fold of a 1-fold run
\* while another metric has been called once
C15_Witness ==
    /\ Called
    /\ n_fold = 1
    /\ CallIndex = 4
    /\ last.fold = n_fold
    /\ \E other \in Metrics \ {last.metric} : memory_call[other] = 1

(***************************************************************************)
(* C16                                                                     *)
(***************************************************************************)
\* the fold's own FID or KID accumulator after a computation of fold f
\* from y_true and y_pred
LocalAcc(y_true, y_pred, f) ==
    FeedReal(FeedFake(NewAcc, y_pred),
             DataLoader(ImageSet(SelectPaths(y_true, TrainName(f)))))

\* the five entries of fold f in cache d are the raw outputs rawFid,
\* rawKid and rawIs, the KID and Inception Score ones times 1000
Rescaled(d, f, rawFid, rawKid, rawIs) ==
    /\ d[<<"FID", f>>] = rawFid
    /\ d[<<"KID_mean", f>>] = rawKid[1] * 1000
    /\ d[<<"KID_std", f>>] = rawKid[2] * 1000
    /\ d[<<"IS_mean", f>>] = rawIs[1] * 1000
    /\ d[<<"IS_std", f>>] = rawIs[2] * 1000

\* C16: the cache is written by a fold computation or by the terminal
\* finalization only, and on both paths the KID_mean, KID_std, IS_mean and
\* IS_std entries are the raw outputs of the accumulators times 1000 and
\* the FID entry is the raw output.
C16_RescaledEverywhere ==
    [][/\ score' # score =>
             finals' # finals \/ \E f \in 0 .. n_fold - 1 :
                                     computed'[f] # computed[f]
       /\ \A f \in 0 .. n_fold - 1 :
             computed'[f] # computed[f] =>
                 Rescaled(score', f,
                     FidCompute(LocalAcc(last'.y_true, last'.y_pred, f)),
                     KidCompute(LocalAcc(last'.y_true, last'.y_pred, f)),
                     IsCompute(FeedIs(NewIs, last'.y_pred)))
       /\ finals' # finals =>
             Rescaled(score', n_fold, FidCompute(fid), KidCompute(kid),
                      IsCompute(is_))]_vars

\* a fold was computed and the global accumulators, fed with it, were
\* finalized
C16_Witness ==
    /\ Called
    /\ n_fold > 0
    /\ last.fold = n_fold
    /\ finals = 1
    /\ computed[0] = 1
    /\ Keys(0) \cup Keys(n_fold) \subseteq DOMAIN score
    /\ score[<<"IS_std", n_fold>>] = IsCompute(is_)[2] * 1000
    /\ score[<<"FID", n_fold>>] = FidCompute(fid)

(***************************************************************************)
(* C17                                                                     *)
(***************************************************************************)
\* C17: for every fold f in 0..n_fold, the cache holds all five
\* (metric, f) entries or none of them.
C17_AllOrNothing ==
    \A f \in 0 .. n_fold :
        Keys(f) \subseteq DOMAIN score \/ Keys(f) \cap DOMAIN score = {}

\* fold 0 is in the cache with its five entries, the terminal fold is not
C17_Witness ==
    /\ n_fold > 0
    /\ Keys(0) \subseteq DOMAIN score
    /\ Keys(n_fold) \cap DOMAIN score = {}
    /\ Called /\ last.fold = 0 /\ last.consumed > 0

(***************************************************************************)
(* C18                                                                     *)
(***************************************************************************)
\* C18: in a run where no call raises, the global accumulators are
\* finalized at most once, and once they are, no call of any metric reads
\* a batch of its stream or updates a global accumulator.
C18_FinalizedOnce ==
    [][/\ last'.outcome = "return"
       /\ finals' <= 1
       /\ finals >= 1 => NoDrain /\ finals' = finals]_vars

\* after the finalization, a metric that has not reached the terminal fold
\* is called on a real fold with a stream that yields a batch
C18_Witness ==
    /\ Called
    /\ finals = 1
    /\ last.fold \in 0 .. n_fold - 1
    /\ memory[<<last.metric, n_fold>>] = 0
    /\ last.y_pred # <<>>
    /\ last.consumed = 0
    /\ last.outcome = "return"

(***************************************************************************)
(* C19                                                                     *)
(***************************************************************************)
\* the fold the code resolves for call index c, while the pattern lasts
FoldOfCall(c) == IF c <= LastReal THEN (c - 1) \div GroupLen ELSE n_fold

\* C19: a call with a metric of the fixed set that raises has advanced the
\* call counter of its metric by one and has left the score cache as it
\* was; every call resolves its fold from the counter as the calls before
\* it, failed ones included, have left it.
C19_FailedCallCounts ==
    [][last'.metric \in Metrics =>
          /\ last'.outcome = "raise" =>
                /\ memory_call'[last'.metric] = memory_call[last'.metric] + 1
                /\ score' = score
          /\ last'.fold # NoFold =>
                last'.fold = FoldOfCall(memory_call[last'.metric] + 1)]_vars

\* the second call of a metric computes fold 0, its first call having
\* raised
C19_Witness ==
    /\ Called
    /\ TotalCalls = 2
    /\ CallIndex = 2
    /\ last.fold = 0
    /\ last.consumed > 0
    /\ last.outcome = "return"
    /\ memory[<<last.metric, 0>>] = 2

=============================================================================
